---- MODULE Spec2Model ----
(***************************************************************************)
(* Run orchestration pipeline of prism-ai-agent: the ingest view creates a *)
(* Run and queues generate_prompts_for_run; that task stores the prompts,  *)
(* creates the IMAGE / AUDIO / VIDEO steps and queues their Celery tasks;  *)
(* every task ends by re-evaluating the run status.  One run is modelled;  *)
(* the Celery tasks of the run interleave at the granularity of their      *)
(* database transactions and queries.                                      *)
(***************************************************************************)
EXTENDS Integers, Naturals, FiniteSets, Sequences, TLC

VARIABLES
    run,        \* the Run row: status, finished_at, requested_modalities, params
    steps,      \* the Step rows of the run, by StepKind ("NONE": no such row)
    prompts,    \* the PromptKinds for which a Prompt row is stored
    assets,     \* the Asset rows of the run, by PromptKind
    queue,      \* Celery broker: the tasks enqueued with .delay() and not yet started
    pc,         \* position of each Celery task of the run
    outcome,    \* what each task's provider call (or the check before it) came to
    fin,        \* _maybe_finalize_run: the decision taken from the steps query
    scheduled,  \* _schedule_downstream_generation: modalities already handled
    request,    \* the keyword arguments of each provider call made
    cleaned,    \* form.cleaned_data of the submission that created the run
    fragment,   \* the last response of RunStatusFragmentView
    page,       \* the last response of SourceIngestView
    library,    \* the last response of AssetLibraryView
    others,     \* the Asset rows of the runs submitted earlier
    tk          \* the last call of a helper of src/runs/tokenization.py

\* What the pipeline of the run leaves alone.
aside == <<library, others, tk>>

vars == <<run, steps, prompts, assets, queue, pc, outcome, fin, scheduled,
          request, cleaned, fragment, page, aside>>

----------------------------------------------------------------------------
(* src/runs/models.py *)

RunStatus == {"PENDING", "RUNNING", "COMPLETED", "FAILED"}

StepStatus == {"PENDING", "RUNNING", "COMPLETED", "FAILED"}

\* EXTRACT is declared by the model and used by no task.
StepKind == {"ANALYZE", "IMAGE", "AUDIO", "VIDEO"}

PromptKind == {"image", "audio", "video"}

\* The step a modality's task works on (StepKind.IMAGE for PromptKind.IMAGE, ...).
StepKindOf(m) ==
    CASE m = "image" -> "IMAGE"
      [] m = "audio" -> "AUDIO"
      [] m = "video" -> "VIDEO"

GenerationKinds == {StepKindOf(m) : m \in PromptKind}

NoStep == [status |-> "NONE", started_at |-> FALSE, finished_at |-> FALSE]

\* Python's None for an optional dict is the empty sequence, a dict d is <<d>>.
None == << >>

Some(d) == <<d>>

Users == {"alice", "bob"}

NoRun == [status |-> "NONE", finished_at |-> FALSE, owner |-> "", title |-> << >>,
          submitted_url |-> << >>, requested_modalities |-> {},
          params |-> [input_mode |-> "", image |-> None]]

----------------------------------------------------------------------------
(* Settings read with getattr(settings, NAME, default): the defaults.       *)

OPENAI_AUDIO_VOICE == "ash"

OPENAI_AUDIO_FORMAT == "mp3"

OPENAI_IMAGE_QUALITY == "medium"

OPENAI_IMAGE_SIZE == "1024x1536"

GOOGLE_VEO_FAST_MODEL == "veo-3.0-fast-generate-001"

GOOGLE_VEO_MODEL == "veo-3.0-generate-001"

GOOGLE_VEO_DEFAULT_RESOLUTION == "720p"

\* `count = options.get("count") or 3`, and the cap of min(int(count), 3).
DefaultImageCount == 3

----------------------------------------------------------------------------
(* Python str: a text is the sequence of its characters.                    *)

Whitespace == {" ", "\n"}

RECURSIVE lstrip(_)
lstrip(s) ==
    IF s # << >> /\ Head(s) \in Whitespace THEN lstrip(Tail(s)) ELSE s

RECURSIVE rstrip(_)
rstrip(s) ==
    IF s # << >> /\ s[Len(s)] \in Whitespace
    THEN rstrip(SubSeq(s, 1, Len(s) - 1))
    ELSE s

strip(s) == rstrip(lstrip(s))

startswith(s, prefix) ==
    Len(s) >= Len(prefix) /\ SubSeq(s, 1, Len(prefix)) = prefix

\* str.lower() on one character of the texts used here.
lower(c) ==
    CASE c = "A" -> "a"
      [] c = "B" -> "b"
      [] c = "I" -> "i"
      [] OTHER -> c

\* The lookup `field__icontains=needle` of a queryset filter.
icontains(haystack, needle) ==
    \E i \in 1..(Len(haystack) - Len(needle) + 1) :
        \A j \in 1..Len(needle) : lower(haystack[i + j - 1]) = lower(needle[j])

----------------------------------------------------------------------------
(* src/runs/tokenization.py *)

PROMPT_TOKEN_LIMIT == 10000

\* The texts and sizes the helpers are called with.
MaxTextLen == 5

MaxTokens == 3

Alphabet == {"a", "b", " "}

RECURSIVE TextsOfLen(_)
TextsOfLen(n) ==
    IF n = 0 THEN {<< >>}
    ELSE {Append(t, c) : t \in TextsOfLen(n - 1), c \in Alphabet}

TextInputs == UNION {TextsOfLen(n) : n \in 0..MaxTextLen}

SizeInputs == -1..MaxTokens

\* The byte-pair encoding _resolve_encoding returns, cut down to the alphabet:
\* each character is a token, and the pairs below are merged into one token (a
\* word piece, and a word start with its leading space).
Merges == {<<"a", "b">>, <<" ", "a">>}

\* encoding.encode: the text as its tokens, longest match first.
RECURSIVE encode(_)
encode(text) ==
    IF text = << >> THEN << >>
    ELSE IF Len(text) >= 2 /\ SubSeq(text, 1, 2) \in Merges
    THEN <<SubSeq(text, 1, 2)>> \o encode(SubSeq(text, 3, Len(text)))
    ELSE <<SubSeq(text, 1, 1)>> \o encode(Tail(text))

\* encoding.decode: the tokens' pieces of text, joined.
RECURSIVE decode(_)
decode(tokens) ==
    IF tokens = << >> THEN << >> ELSE Head(tokens) \o decode(Tail(tokens))

\* count_tokens
count_tokens(text) == IF text = << >> THEN 0 ELSE Len(encode(text))

\* The suffix "\n[truncated]": a newline and the marker word.
TruncatedSuffix == <<"\n", "[truncated]">>

\* truncate_to_limit
truncate_to_limit(text, limit) ==
    LET cleaned_text == strip(text)
        tokens == encode(cleaned_text)
    IN  IF cleaned_text = << >> \/ limit <= 0 THEN << >>
        ELSE IF Len(tokens) <= limit THEN cleaned_text
        ELSE rstrip(decode(SubSeq(tokens, 1, limit))) \o TruncatedSuffix

\* Mutant of TokenSlice: the slice ends one token early.
TokenSlice_one_short(tokens, start, chunk_size) ==
    SubSeq(tokens, start + 1, IF start + chunk_size - 1 < Len(tokens)
                               THEN start + chunk_size - 1 ELSE Len(tokens))

\* tokens[start : start + chunk_size]
TokenSlice(tokens, start, chunk_size) ==
    SubSeq(tokens, start + 1, IF start + chunk_size < Len(tokens)
                               THEN start + chunk_size ELSE Len(tokens))

NoCall == [op |-> "none", text |-> << >>, size |-> 0, start |-> 0,
           result |-> << >>, slices |-> << >>, chunks |-> << >>, done |-> FALSE]

\* truncate_to_limit(text, limit) is called and returns.
truncate_to_limit_call(text, limit) ==
    /\ tk = NoCall
    /\ tk' = [NoCall EXCEPT !.op = "truncate_to_limit", !.text = text,
                            !.size = limit,
                            !.result = truncate_to_limit(text, limit),
                            !.done = TRUE]
    /\ UNCHANGED <<run, steps, prompts, assets, queue, pc, outcome, fin, scheduled,
                   request, cleaned, fragment, page, library, others>>

\* iter_token_chunks(text, chunk_size) is called: a generator, not yet run.
iter_token_chunks_call(text, chunk_size) ==
    /\ tk = NoCall
    /\ tk' = [NoCall EXCEPT !.op = "iter_token_chunks", !.text = text,
                            !.size = chunk_size]
    /\ UNCHANGED <<run, steps, prompts, assets, queue, pc, outcome, fin, scheduled,
                   request, cleaned, fragment, page, library, others>>

\* next() on the generator: it returns at once for chunk_size <= 0 or a blank
\* text, else it yields the decoding of the next slice of the tokens, and it
\* is exhausted when range(0, len(tokens), chunk_size) is.
iter_token_chunks_next ==
    /\ tk.op = "iter_token_chunks"
    /\ ~tk.done
    /\ LET cleaned_text == strip(tk.text)
           tokens == encode(cleaned_text)
           slice == TokenSlice(tokens, tk.start, tk.size)
       IN  IF tk.size <= 0 \/ cleaned_text = << >> \/ tk.start >= Len(tokens)
           THEN tk' = [tk EXCEPT !.done = TRUE]
           ELSE tk' = [tk EXCEPT !.start = @ + tk.size,
                                 !.slices = Append(@, slice),
                                 !.chunks = Append(@, decode(slice))]
    /\ UNCHANGED <<run, steps, prompts, assets, queue, pc, outcome, fin, scheduled,
                   request, cleaned, fragment, page, library, others>>

----------------------------------------------------------------------------
(* src/sources/forms.py: RunRequestForm *)

\* The values a submission carries for each field: the field left blank ("",
\* 0 or the empty text), a choice other than the default, and a value that is
\* not among the field's choices ("echo", "flac", 4, "veo-2", "4k").
ModalityInputs == SUBSET PromptKind

ImageCountInputs == {0, 1, 4}

ImageQualityInputs == {"", "high"}

ImageSizeInputs == {"", "1024x1024"}

AudioVoiceInputs == {"", "nova", "echo"}

AudioFormatInputs == {"", "wav", "flac"}

VideoModelInputs == {"", "veo-3.0-generate-001", "veo-2"}

VideoResolutionInputs == {"1080p", "4k"}

TitleInputs == {<< >>, <<"A", "b">>}

InputModeInputs == {"", "url", "text"}

HttpPrefix == <<"h", "t", "t", "p", ":", "/", "/">>

HttpsPrefix == <<"h", "t", "t", "p", "s", ":", "/", "/">>

SourceUrlInputs ==
    {<< >>, <<"a", ".", "b">>, HttpPrefix \o <<"a", ".", "b">>, <<"a", " ", "b">>}

SourceTextInputs == {<< >>, <<" ">>, <<"a", " ", "b">>}

\* The submissions of the pipeline: every choice of modalities and options,
\* for a titled run on a URL.
FormInputs ==
    [run_title : {<<"A", "b">>},
     input_mode : {"url"},
     source_url : {<<"a", ".", "b">>},
     source_text : {<< >>},
     modalities : ModalityInputs,
     image_count : ImageCountInputs,
     image_quality : ImageQualityInputs,
     image_size : ImageSizeInputs,
     audio_voice : AudioVoiceInputs,
     audio_format : AudioFormatInputs,
     video_model : VideoModelInputs,
     video_resolution : VideoResolutionInputs]

\* The submissions with the options left as the page offers them: every choice
\* of the given modalities, titles, input modes and sources.
PlainInputs(modalities, titles, modes, urls, texts) ==
    [run_title : titles,
     input_mode : modes,
     source_url : urls,
     source_text : texts,
     modalities : modalities,
     image_count : {0},
     image_quality : {"high"},
     image_size : {"1024x1024"},
     audio_voice : {""},
     audio_format : {""},
     video_model : {""},
     video_resolution : {"1080p"}]

\* `x or default` of Python, for strings.
OrDefault(x, default) == IF x = "" THEN default ELSE x

\* TypedChoiceField(coerce=int, empty_value=3): a blank image_count cleans to 3.
CleanImageCount(c) == IF c = 0 THEN DefaultImageCount ELSE c

\* django.core.validators.URLValidator, for the texts used here: a scheme and
\* a host without whitespace.
URLValidator(url) ==
    LET host == IF startswith(url, HttpsPrefix)
                THEN SubSeq(url, Len(HttpsPrefix) + 1, Len(url))
                ELSE SubSeq(url, Len(HttpPrefix) + 1, Len(url))
    IN  /\ startswith(url, HttpPrefix) \/ startswith(url, HttpsPrefix)
        /\ host # << >>
        /\ \A i \in DOMAIN host : host[i] \notin Whitespace

\* clean(), lines 133-137: the URL stripped, with https:// put before it
\* unless it starts with http:// or https://.
NormalizedUrl(url) ==
    LET normalized == strip(url)
    IN  IF normalized # << >>
           /\ ~startswith(normalized, HttpPrefix)
           /\ ~startswith(normalized, HttpsPrefix)
        THEN HttpsPrefix \o normalized
        ELSE normalized

\* Mutant of FieldErrors: clean() does not look at the source fields.
FieldErrors_source_unchecked(data) ==
    {f \in {"run_title"} : strip(data.run_title) = << >>}
    \cup {f \in {"input_mode"} : data.input_mode \notin {"url", "text"}}
    \cup {f \in {"modalities"} : data.modalities = {}}
    \cup {f \in {"image_count"} : data.image_count \notin {0, 1, 2, 3}}
    \cup {f \in {"image_quality"} :
            \/ data.image_quality \notin {"", "low", "medium", "high"}
            \/ "image" \in data.modalities /\ data.image_quality = ""}
    \cup {f \in {"image_size"} :
            \/ data.image_size \notin {"", "1024x1024", "1024x1536", "1536x1024"}
            \/ "image" \in data.modalities /\ data.image_size = ""}
    \cup {f \in {"audio_voice"} : data.audio_voice \notin {"", "ash", "nova", "ballad"}}
    \cup {f \in {"audio_format"} : data.audio_format \notin {"", "mp3", "wav"}}
    \cup {f \in {"video_model"} :
            data.video_model \notin {"", GOOGLE_VEO_FAST_MODEL, GOOGLE_VEO_MODEL}}
    \cup {f \in {"video_resolution"} :
            data.video_resolution \notin {"", "720p", "1080p"}}

\* The fields with errors: the fields' own validation (CharField strips and
\* requires run_title, ChoiceField accepts its choices), clean_modalities, and
\* clean().
FieldErrors(data) ==
    {f \in {"run_title"} : strip(data.run_title) = << >>}
    \cup {f \in {"input_mode"} : data.input_mode \notin {"url", "text"}}
    \cup {f \in {"source_url"} :
            /\ data.input_mode = "url"
            /\ \/ strip(data.source_url) = << >>
               \/ ~URLValidator(NormalizedUrl(strip(data.source_url)))}
    \cup {f \in {"source_text"} :
            data.input_mode = "text" /\ strip(data.source_text) = << >>}
    \cup {f \in {"modalities"} : data.modalities = {}}
    \cup {f \in {"image_count"} : data.image_count \notin {0, 1, 2, 3}}
    \cup {f \in {"image_quality"} :
            \/ data.image_quality \notin {"", "low", "medium", "high"}
            \/ "image" \in data.modalities /\ data.image_quality = ""}
    \cup {f \in {"image_size"} :
            \/ data.image_size \notin {"", "1024x1024", "1024x1536", "1536x1024"}
            \/ "image" \in data.modalities /\ data.image_size = ""}
    \cup {f \in {"audio_voice"} : data.audio_voice \notin {"", "ash", "nova", "ballad"}}
    \cup {f \in {"audio_format"} : data.audio_format \notin {"", "mp3", "wav"}}
    \cup {f \in {"video_model"} :
            data.video_model \notin {"", GOOGLE_VEO_FAST_MODEL, GOOGLE_VEO_MODEL}}
    \cup {f \in {"video_resolution"} :
            data.video_resolution \notin {"", "720p", "1080p"}}

is_valid(data) == FieldErrors(data) = {}

\* clean(): cleaned_data with the normalized source_url and with
\* image_options, audio_options and video_options.
RunRequestForm_clean(data) ==
    [run_title |-> strip(data.run_title),
     input_mode |-> data.input_mode,
     source_url |->
        IF data.input_mode = "url" /\ strip(data.source_url) # << >>
        THEN NormalizedUrl(strip(data.source_url))
        ELSE strip(data.source_url),
     source_text |-> strip(data.source_text),
     modalities |-> data.modalities,
     image_options |->
        IF "image" \in data.modalities
        THEN Some([count |-> CleanImageCount(data.image_count),
                   quality |-> OrDefault(data.image_quality, OPENAI_IMAGE_QUALITY),
                   size |-> OrDefault(data.image_size, OPENAI_IMAGE_SIZE)])
        ELSE None,
     audio_options |->
        IF "audio" \in data.modalities
        THEN Some([voice |-> OrDefault(data.audio_voice, OPENAI_AUDIO_VOICE),
                   format |-> OrDefault(data.audio_format, OPENAI_AUDIO_FORMAT)])
        ELSE None,
     video_options |->
        IF "video" \in data.modalities
        THEN Some([model |-> OrDefault(data.video_model, GOOGLE_VEO_FAST_MODEL),
                   resolution |-> OrDefault(data.video_resolution, "720p")])
        ELSE None]

NoCleaned ==
    [run_title |-> << >>, input_mode |-> "", source_url |-> << >>,
     source_text |-> << >>, modalities |-> {}, image_options |-> None,
     audio_options |-> None, video_options |-> None]

----------------------------------------------------------------------------
NoFragment == [user |-> "", status_code |-> 0, status_message |-> "",
               poll_active |-> TRUE]

NoPage == [user |-> "", status_code |-> 0, errors |-> {}, status_url |-> FALSE]

NoLibrary == [user |-> "", q |-> << >>, source |-> << >>, rows |-> {}]

Init ==
    /\ run = NoRun
    /\ steps = [k \in StepKind |-> NoStep]
    /\ prompts = {}
    /\ assets = [m \in PromptKind |-> {}]
    /\ queue = {}
    /\ pc = [k \in StepKind |-> "idle"]
    /\ outcome = [k \in StepKind |-> "none"]
    /\ fin = [k \in StepKind |-> "none"]
    /\ scheduled = {}
    /\ request = [k \in StepKind |-> None]
    /\ cleaned = NoCleaned
    /\ fragment = NoFragment
    /\ page = NoPage
    /\ library = NoLibrary
    /\ others = {}
    /\ tk = NoCall

----------------------------------------------------------------------------
(* src/sources/views.py: SourceIngestView *)

\* get_context_data for a GET with ?run=<id>: the status URL of the run when
\* the user owns it, else the empty string.
SourceIngestView_get(user) ==
    /\ page' = [user |-> user, status_code |-> 200, errors |-> {},
                status_url |-> run.status # "NONE" /\ run.owner = user]
    /\ UNCHANGED <<run, steps, prompts, assets, queue, pc, outcome, fin, scheduled,
                   request, cleaned, fragment, aside>>

\* form_valid: the Run row, its ANALYZE step and the prompt-generation task.
\* params keeps input_mode and the image options only; the task is sent title,
\* submitted_url, source_text, modalities and image_options.
form_valid(user, data) ==
    /\ run.status = "NONE"
    /\ is_valid(data)
    /\ cleaned' = RunRequestForm_clean(data)
    /\ run' = [status |-> "PENDING", finished_at |-> FALSE,
               owner |-> user,
               title |-> cleaned'.run_title,
               submitted_url |-> IF cleaned'.input_mode = "url"
                                 THEN cleaned'.source_url ELSE << >>,
               requested_modalities |-> cleaned'.modalities,
               params |-> [input_mode |-> cleaned'.input_mode,
                           image |-> cleaned'.image_options]]
    /\ steps' = [steps EXCEPT !["ANALYZE"] =
                    [status |-> "PENDING", started_at |-> FALSE, finished_at |-> FALSE]]
    /\ queue' = queue \cup {"ANALYZE"}
    /\ page' = [user |-> user, status_code |-> 200, errors |-> {},
                status_url |-> TRUE]
    /\ UNCHANGED <<prompts, assets, pc, outcome, fin, scheduled, request, fragment,
                   aside>>

\* form_invalid: validation feedback only (status 400 with the form's errors);
\* nothing is created or queued.
form_invalid(user, data) ==
    /\ run.status = "NONE"
    /\ ~is_valid(data)
    /\ page' = [user |-> user, status_code |-> 400, errors |-> FieldErrors(data),
                status_url |-> FALSE]
    /\ UNCHANGED <<run, steps, prompts, assets, queue, pc, outcome, fin, scheduled,
                   request, cleaned, fragment, aside>>

----------------------------------------------------------------------------
(* src/runs/tasks/common.py *)

\* Mutant of _mark_run_failed: the run is saved as FAILED, the step is not.
_mark_run_failed_run_only ==
    /\ run' = [run EXCEPT !.status = "FAILED", !.finished_at = TRUE]
    /\ UNCHANGED steps

\* _mark_run_failed: run and ANALYZE step FAILED in one transaction
\* (get_or_create makes the step when it is missing).
_mark_run_failed ==
    /\ run' = [run EXCEPT !.status = "FAILED", !.finished_at = TRUE]
    /\ steps' = [steps EXCEPT !["ANALYZE"] =
                    [@ EXCEPT !.status = "FAILED", !.finished_at = TRUE]]

\* Mutant of _mark_step_failed: the step is saved as FAILED, the run is not.
_mark_step_failed_step_only(k) ==
    /\ steps' = [steps EXCEPT ![k] = [@ EXCEPT !.status = "FAILED", !.finished_at = TRUE]]
    /\ UNCHANGED run

\* _mark_step_failed: the step and the run FAILED in one transaction.
_mark_step_failed(k) ==
    /\ steps' = [steps EXCEPT ![k] = [@ EXCEPT !.status = "FAILED", !.finished_at = TRUE]]
    /\ run' = [run EXCEPT !.status = "FAILED", !.finished_at = TRUE]

\* _expected_step_kinds: ANALYZE, IMAGE when requested, AUDIO when requested.
_expected_step_kinds(modalities) ==
    {"ANALYZE"}
    \cup {k \in {"IMAGE"} : "image" \in modalities}
    \cup {k \in {"AUDIO"} : "audio" \in modalities}

\* _maybe_finalize_run, the decision from the steps query: "return" when no
\* step is found, else the status the run is updated to.
FinalizeDecision(rows, modalities) ==
    LET expected_kinds == _expected_step_kinds(modalities)
        found == {k \in expected_kinds : rows[k].status # "NONE"}
    IN  IF found = {} THEN "return"
        ELSE IF \E k \in found : rows[k].status = "FAILED" THEN "FAILED"
        ELSE IF expected_kinds \subseteq found
                /\ \A k \in expected_kinds : rows[k].status = "COMPLETED"
             THEN "COMPLETED"
        ELSE "RUNNING"

\* The task has reached its call of _maybe_finalize_run (after refresh_from_db).
AtFinalize(t) ==
    \/ t \in GenerationKinds /\ pc[t] = "completed"
    \/ t = "ANALYZE" /\ pc[t] = "scheduling" /\ scheduled = run.requested_modalities

\* _maybe_finalize_run, lines 46-51: the steps query.
_maybe_finalize_run_query(t) ==
    /\ AtFinalize(t)
    /\ fin' = [fin EXCEPT ![t] = FinalizeDecision(steps, run.requested_modalities)]
    /\ pc' = [pc EXCEPT ![t] = "finalizing"]
    /\ UNCHANGED <<run, steps, prompts, assets, queue, outcome, scheduled, request,
                   cleaned, fragment, page, aside>>

\* _maybe_finalize_run, lines 53-74: the update of the run row.
_maybe_finalize_run_update(t) ==
    /\ pc[t] = "finalizing"
    /\ run' = CASE fin[t] = "FAILED" ->
                     [run EXCEPT !.status = "FAILED", !.finished_at = TRUE]
                [] fin[t] = "COMPLETED" ->
                     [run EXCEPT !.status = "COMPLETED", !.finished_at = TRUE]
                [] fin[t] = "RUNNING" ->
                     [run EXCEPT !.status = "RUNNING", !.finished_at = FALSE]
                [] OTHER -> run
    /\ pc' = [pc EXCEPT ![t] = "done"]
    /\ UNCHANGED <<steps, prompts, assets, queue, outcome, fin, scheduled, request,
                   cleaned, fragment, page, aside>>

----------------------------------------------------------------------------
(* src/runs/tasks/orchestrator.py: generate_prompts_for_run *)

\* What client.responses.create comes to: an OpenAIError, no output_text, text
\* that is not JSON, JSON that is no object, or an object holding (non-empty)
\* '<modality>_prompt' values for `keys`.
AnalyzeResponses ==
    [result : {"error", "empty", "bad_json", "not_object"}, keys : {{}}]
    \cup [result : {"object"}, keys : SUBSET PromptKind]

\* Lines 82-160: the run is loaded; without an API key or modalities the run is
\* marked failed, else run and ANALYZE step are set RUNNING in one transaction
\* and, that committed, the provider call begins: with the web_search tool for
\* a submitted URL, and with the source text cut to PROMPT_TOKEN_LIMIT.  `api_key` is settings.OPENAI_API_KEY as the
\* worker process reads it.
generate_prompts_for_run_begin(api_key) ==
    /\ "ANALYZE" \in queue
    /\ pc["ANALYZE"] = "idle"
    /\ queue' = queue \ {"ANALYZE"}
    /\ IF ~api_key \/ cleaned.modalities = {}
       THEN /\ _mark_run_failed
            /\ outcome' = [outcome EXCEPT !["ANALYZE"] =
                              IF ~api_key THEN "no_api_key" ELSE "no_modalities"]
            /\ pc' = [pc EXCEPT !["ANALYZE"] = "done"]
            /\ UNCHANGED request
       ELSE /\ run' = [run EXCEPT !.status = "RUNNING"]
            /\ steps' = [steps EXCEPT !["ANALYZE"] =
                            [@ EXCEPT !.status = "RUNNING", !.started_at = TRUE]]
            /\ request' = [request EXCEPT !["ANALYZE"] =
                              Some([modalities |-> cleaned.modalities,
                                    web_search |-> run.submitted_url # << >>,
                                    source_text |->
                                        truncate_to_limit(cleaned.source_text,
                                                          PROMPT_TOKEN_LIMIT)])]
            /\ pc' = [pc EXCEPT !["ANALYZE"] = "calling"]
            /\ UNCHANGED outcome
    /\ UNCHANGED <<prompts, assets, fin, scheduled, cleaned, fragment, page, aside>>

\* Lines 161-232: the provider call returns.  An error, an empty text or
\* unparsable JSON marks the run failed; JSON that is no object raises at
\* payload.get inside the transaction, which rolls back and ends the task; else
\* one transaction stores the prompts found and completes the ANALYZE step, or
\* with no prompt found fails step and run.
generate_prompts_for_run_response(resp) ==
    /\ pc["ANALYZE"] = "calling"
    /\ LET saved_prompts == resp.keys \cap cleaned.modalities
       IN  CASE resp.result \in {"error", "empty", "bad_json"} ->
                  /\ _mark_run_failed
                  /\ outcome' = [outcome EXCEPT !["ANALYZE"] = resp.result]
                  /\ pc' = [pc EXCEPT !["ANALYZE"] = "done"]
                  /\ UNCHANGED prompts
             [] resp.result = "not_object" ->
                  /\ outcome' = [outcome EXCEPT !["ANALYZE"] = "not_object"]
                  /\ pc' = [pc EXCEPT !["ANALYZE"] = "crashed"]
                  /\ UNCHANGED <<run, steps, prompts>>
             [] resp.result = "object" /\ saved_prompts = {} ->
                  /\ steps' = [steps EXCEPT !["ANALYZE"] =
                                  [@ EXCEPT !.status = "FAILED", !.finished_at = TRUE]]
                  /\ run' = [run EXCEPT !.status = "FAILED", !.finished_at = TRUE]
                  /\ outcome' = [outcome EXCEPT !["ANALYZE"] = "no_prompts"]
                  /\ pc' = [pc EXCEPT !["ANALYZE"] = "done"]
                  /\ UNCHANGED prompts
             [] OTHER ->
                  /\ prompts' = prompts \cup saved_prompts
                  /\ steps' = [steps EXCEPT !["ANALYZE"] =
                                  [@ EXCEPT !.status = "COMPLETED", !.finished_at = TRUE]]
                  /\ outcome' = [outcome EXCEPT !["ANALYZE"] = "ok"]
                  /\ pc' = [pc EXCEPT !["ANALYZE"] = "scheduling"]
                  /\ UNCHANGED run
    /\ UNCHANGED <<assets, queue, fin, scheduled, request, cleaned, fragment, page, aside>>

\* _schedule_downstream_generation handles image, then audio, then video.
NextToSchedule ==
    LET left == run.requested_modalities \ scheduled
    IN  IF "image" \in left THEN "image"
        ELSE IF "audio" \in left THEN "audio"
        ELSE "video"

\* Mutant of _queue_generation: the downstream tasks are scheduled while the
\* prompt request is still running, before the ANALYZE step is completed.
_queue_generation_before_response(m) ==
    /\ pc["ANALYZE"] \in {"calling", "scheduling"}
    /\ scheduled # run.requested_modalities
    /\ m = NextToSchedule
    /\ scheduled' = scheduled \cup {m}
    /\ IF steps[StepKindOf(m)].status \in {"RUNNING", "COMPLETED"}
       THEN UNCHANGED <<steps, queue>>
       ELSE /\ steps' = [steps EXCEPT ![StepKindOf(m)] =
                            [status |-> "PENDING", started_at |-> FALSE,
                             finished_at |-> FALSE]]
            /\ queue' = queue \cup {StepKindOf(m)}
    /\ UNCHANGED <<run, prompts, assets, pc, outcome, fin, request, cleaned, fragment, page, aside>>

\* _queue_image_generation, _queue_audio_generation, _queue_video_generation:
\* one transaction creates the step (or resets it to PENDING), leaving a
\* RUNNING or COMPLETED step alone and returning; then the task is enqueued.
_queue_generation(m) ==
    /\ pc["ANALYZE"] = "scheduling"
    /\ scheduled # run.requested_modalities
    /\ m = NextToSchedule
    /\ scheduled' = scheduled \cup {m}
    /\ IF steps[StepKindOf(m)].status \in {"RUNNING", "COMPLETED"}
       THEN UNCHANGED <<steps, queue>>
       ELSE /\ steps' = [steps EXCEPT ![StepKindOf(m)] =
                            [status |-> "PENDING", started_at |-> FALSE,
                             finished_at |-> FALSE]]
            /\ queue' = queue \cup {StepKindOf(m)}
    /\ UNCHANGED <<run, prompts, assets, pc, outcome, fin, request, cleaned, fragment, page, aside>>

----------------------------------------------------------------------------
(* The generation tasks: what they share *)

\* run.params.get(key): form_valid stores the keys input_mode and image.
ParamsGet(key) == IF key = "image" THEN run.params.image ELSE None

\* Mutant of StepRunning: the RUNNING status is not committed before the call.
StepRunning_uncommitted(k) == UNCHANGED steps

\* `with transaction.atomic()`: the step is saved as RUNNING and committed.
StepRunning(k) ==
    steps' = [steps EXCEPT ![k] = [@ EXCEPT !.status = "RUNNING", !.started_at = TRUE]]

StepCompleted(k) ==
    steps' = [steps EXCEPT ![k] = [@ EXCEPT !.status = "COMPLETED", !.finished_at = TRUE]]

\* Mutant of FailStep: the `return` after _mark_step_failed is missing and the
\* task goes on to complete its step.
FailStep_no_return(k, why) ==
    /\ _mark_step_failed(k)
    /\ outcome' = [outcome EXCEPT ![k] = why]
    /\ pc' = [pc EXCEPT ![k] = "saved"]

\* The task ends after _mark_step_failed.
FailStep(k, why) ==
    /\ _mark_step_failed(k)
    /\ outcome' = [outcome EXCEPT ![k] = why]
    /\ pc' = [pc EXCEPT ![k] = "done"]

\* Mutant of GenerationBegin: the stored prompt is not looked for.
GenerationBegin_no_prompt_check(k, m) ==
    /\ k \in queue
    /\ pc[k] = "idle"
    /\ queue' = queue \ {k}
    /\ StepRunning(k)
    /\ pc' = [pc EXCEPT ![k] = "running"]
    /\ UNCHANGED <<run, outcome>>
    /\ UNCHANGED <<prompts, assets, fin, scheduled, request, cleaned, fragment, page, aside>>

\* The head of each generation task: run, step and prompt are loaded; a missing
\* step ends the task, a missing prompt fails the step, else one transaction
\* sets the step RUNNING.
GenerationBegin(k, m) ==
    /\ k \in queue
    /\ pc[k] = "idle"
    /\ queue' = queue \ {k}
    /\ IF steps[k].status = "NONE"
       THEN /\ outcome' = [outcome EXCEPT ![k] = "no_step"]
            /\ pc' = [pc EXCEPT ![k] = "done"]
            /\ UNCHANGED <<run, steps>>
       ELSE IF m \notin prompts
       THEN FailStep(k, "no_prompt")
       ELSE /\ StepRunning(k)
            /\ pc' = [pc EXCEPT ![k] = "running"]
            /\ UNCHANGED <<run, outcome>>
    /\ UNCHANGED <<prompts, assets, fin, scheduled, request, cleaned, fragment, page, aside>>

----------------------------------------------------------------------------
(* src/runs/tasks/image.py: generate_images_for_run *)

Min(a, b) == IF a < b THEN a ELSE b

Max(a, b) == IF a > b THEN a ELSE b

\* Lines 42-54: count = options.get("count") or 3, kept within 1..3.
ImageCount ==
    LET options == ParamsGet("image")
        count == IF options = None \/ options[1].count = 0
                 THEN DefaultImageCount ELSE options[1].count
    IN  Max(1, Min(count, 3))

\* Mutant of ImageQuality: the setting is sent, whatever the run asks for.
ImageQuality_from_settings == OPENAI_IMAGE_QUALITY

\* Lines 44-56: quality from run.params["image"], else the setting; a value
\* that is no quality of the provider becomes "medium".
ImageQuality ==
    LET options == ParamsGet("image")
        quality == IF options = None THEN OPENAI_IMAGE_QUALITY
                   ELSE OrDefault(options[1].quality, OPENAI_IMAGE_QUALITY)
    IN  IF quality \in {"low", "medium", "high"} THEN quality ELSE "medium"

\* Lines 49-58: size from run.params["image"], else the setting; a value that
\* is no size of the provider becomes the setting.
ImageSize ==
    LET options == ParamsGet("image")
        size == IF options = None THEN OPENAI_IMAGE_SIZE
                ELSE OrDefault(options[1].size, OPENAI_IMAGE_SIZE)
    IN  IF size \in {"1024x1024", "1024x1536", "1536x1024"}
        THEN size ELSE OPENAI_IMAGE_SIZE

\* What client.images.generate comes to: an OpenAIError, no data, or n items
\* of which those at `decodable` carry base64 that decodes (none, the first
\* only, or all of them).
ImageResponses(n) ==
    [result : {"error", "empty"}, decodable : {{}}]
    \cup [result : {"data"}, decodable : {{}, {1}, 1..n}]

generate_images_for_run_begin == GenerationBegin("IMAGE", "image")

\* Lines 67-81: without an API key the step fails, else the provider is called.
generate_images_for_run_call(api_key) ==
    /\ pc["IMAGE"] = "running"
    /\ IF ~api_key
       THEN /\ FailStep("IMAGE", "no_api_key")
            /\ UNCHANGED request
       ELSE /\ request' = [request EXCEPT !["IMAGE"] =
                              Some([n |-> ImageCount, quality |-> ImageQuality,
                                    size |-> ImageSize])]
            /\ pc' = [pc EXCEPT !["IMAGE"] = "calling"]
            /\ UNCHANGED <<run, steps, outcome>>
    /\ UNCHANGED <<prompts, assets, queue, fin, scheduled, cleaned, fragment, page, aside>>

\* Lines 82-129: an error or no data fails the step; else the old image assets
\* are deleted and one asset is stored per decodable item; with none stored
\* the step fails.
generate_images_for_run_response(resp) ==
    /\ pc["IMAGE"] = "calling"
    /\ CASE resp.result \in {"error", "empty"} ->
              /\ FailStep("IMAGE", resp.result)
              /\ UNCHANGED assets
         [] resp.result = "data" /\ resp.decodable = {} ->
              /\ FailStep("IMAGE", "undecodable")
              /\ assets' = [assets EXCEPT !["image"] = {}]
         [] OTHER ->
              /\ assets' = [assets EXCEPT !["image"] =
                               {[index |-> i] : i \in resp.decodable}]
              /\ outcome' = [outcome EXCEPT !["IMAGE"] = "ok"]
              /\ pc' = [pc EXCEPT !["IMAGE"] = "saved"]
              /\ UNCHANGED <<run, steps>>
    /\ UNCHANGED <<prompts, queue, fin, scheduled, request, cleaned, fragment, page, aside>>

\* Lines 131-138: one transaction completes the step; the run is refreshed.
generate_images_for_run_finish ==
    /\ pc["IMAGE"] = "saved"
    /\ StepCompleted("IMAGE")
    /\ pc' = [pc EXCEPT !["IMAGE"] = "completed"]
    /\ UNCHANGED <<run, prompts, assets, queue, outcome, fin, scheduled, request,
                   cleaned, fragment, page, aside>>

----------------------------------------------------------------------------
(* src/runs/tasks/audio.py: generate_audio_for_run *)

\* Lines 158-162: voice and format from run.params["audio"], else the settings.
AudioVoice ==
    LET options == ParamsGet("audio")
    IN  IF options = None THEN OPENAI_AUDIO_VOICE
        ELSE OrDefault(options[1].voice, OPENAI_AUDIO_VOICE)

AudioFormat ==
    LET options == ParamsGet("audio")
    IN  IF options = None THEN OPENAI_AUDIO_FORMAT
        ELSE OrDefault(options[1].format, OPENAI_AUDIO_FORMAT)

\* _save_audio_asset: the step's audio assets are deleted and one is stored.
_save_audio_asset(provider, voice, audio_format, mock) ==
    assets' = [assets EXCEPT !["audio"] =
                  {[provider |-> provider, voice |-> voice,
                    format |-> audio_format, mock |-> mock]}]

\* Mutant of _complete_audio_with_mock: the mock clip is filed under the
\* requested format instead of "wav".
_complete_audio_with_mock_requested_format(voice, why) ==
    /\ _save_audio_asset("mock", voice, AudioFormat, TRUE)
    /\ outcome' = [outcome EXCEPT !["AUDIO"] = why]
    /\ pc' = [pc EXCEPT !["AUDIO"] = "saved"]

\* _complete_audio_with_mock: a mock WAV asset; _finish_audio_step follows.
_complete_audio_with_mock(voice, why) ==
    /\ _save_audio_asset("mock", voice, "wav", TRUE)
    /\ outcome' = [outcome EXCEPT !["AUDIO"] = why]
    /\ pc' = [pc EXCEPT !["AUDIO"] = "saved"]

AudioResponses == {"error", "empty", "ok"}

generate_audio_for_run_begin == GenerationBegin("AUDIO", "audio")

\* Lines 179-203: without an API key the task falls back to the mock clip, else
\* the text-to-speech provider is called with voice and response_format.
generate_audio_for_run_call(api_key) ==
    /\ pc["AUDIO"] = "running"
    /\ IF ~api_key
       THEN /\ _complete_audio_with_mock(AudioVoice, "no_api_key")
            /\ UNCHANGED request
       ELSE /\ request' = [request EXCEPT !["AUDIO"] =
                              Some([voice |-> AudioVoice,
                                    response_format |-> AudioFormat])]
            /\ pc' = [pc EXCEPT !["AUDIO"] = "calling"]
            /\ UNCHANGED <<assets, outcome>>
    /\ UNCHANGED <<run, steps, prompts, queue, fin, scheduled, cleaned, fragment, page, aside>>

\* Lines 204-271: an OpenAIError or no audio bytes falls back to the mock clip,
\* else the narration is stored in the requested format.
generate_audio_for_run_response(resp) ==
    /\ pc["AUDIO"] = "calling"
    /\ IF resp \in {"error", "empty"}
       THEN _complete_audio_with_mock(AudioVoice, resp)
       ELSE /\ _save_audio_asset("openai", AudioVoice, AudioFormat, FALSE)
            /\ outcome' = [outcome EXCEPT !["AUDIO"] = "ok"]
            /\ pc' = [pc EXCEPT !["AUDIO"] = "saved"]
    /\ UNCHANGED <<run, steps, prompts, queue, fin, scheduled, request, cleaned,
                   fragment, page, aside>>

\* _finish_audio_step: one transaction completes the step; the run is refreshed.
_finish_audio_step ==
    /\ pc["AUDIO"] = "saved"
    /\ StepCompleted("AUDIO")
    /\ pc' = [pc EXCEPT !["AUDIO"] = "completed"]
    /\ UNCHANGED <<run, prompts, assets, queue, outcome, fin, scheduled, request,
                   cleaned, fragment, page, aside>>

----------------------------------------------------------------------------
(* src/runs/tasks/video.py: generate_video_for_run *)

\* Lines 124-137: model and resolution from run.params["video"], else the settings.
VideoModel ==
    LET options == ParamsGet("video")
    IN  IF options = None THEN GOOGLE_VEO_FAST_MODEL
        ELSE OrDefault(options[1].model, GOOGLE_VEO_FAST_MODEL)

VideoResolution ==
    LET options == ParamsGet("video")
    IN  IF options = None THEN GOOGLE_VEO_DEFAULT_RESOLUTION
        ELSE OrDefault(options[1].resolution, GOOGLE_VEO_DEFAULT_RESOLUTION)

\* _save_video_asset: the step's video assets are deleted and one is stored.
_save_video_asset(model_name, resolution) ==
    assets' = [assets EXCEPT !["video"] =
                  {[provider |-> "google", model |-> model_name,
                    resolution |-> resolution]}]

generate_video_for_run_begin == GenerationBegin("VIDEO", "video")

\* Lines 146-175: without GOOGLE_API_KEY, or when the client or the request
\* configuration cannot be built, the step fails; else generate_videos is called.
generate_video_for_run_call(api_key, client_ok) ==
    /\ pc["VIDEO"] = "running"
    /\ IF ~api_key \/ ~client_ok
       THEN /\ FailStep("VIDEO", IF ~api_key THEN "no_api_key" ELSE "no_client")
            /\ UNCHANGED request
       ELSE /\ request' = [request EXCEPT !["VIDEO"] =
                              Some([model |-> VideoModel,
                                    resolution |-> VideoResolution])]
            /\ pc' = [pc EXCEPT !["VIDEO"] = "calling"]
            /\ UNCHANGED <<run, steps, outcome>>
    /\ UNCHANGED <<prompts, assets, queue, fin, scheduled, cleaned, fragment, page, aside>>

\* Lines 170-179: generate_videos raises, or returns the operation to poll.
generate_video_for_run_operation(raised) ==
    /\ pc["VIDEO"] = "calling"
    /\ IF raised
       THEN FailStep("VIDEO", "error")
       ELSE /\ pc' = [pc EXCEPT !["VIDEO"] = "polling"]
            /\ UNCHANGED <<run, steps, outcome>>
    /\ UNCHANGED <<prompts, assets, queue, fin, scheduled, request, cleaned, fragment, page, aside>>

\* What a look at the operation comes to: not done yet, the poll raises, done
\* with no video (no generated video, no handle, no downloadable bytes), or
\* done with the video.
VideoPolls == {"pending", "error", "empty", "ok"}

\* Lines 181-248: the operation is polled until done; a failed poll or an
\* empty result fails the step, else the video asset is stored.
generate_video_for_run_poll(resp) ==
    /\ pc["VIDEO"] = "polling"
    /\ CASE resp = "pending" ->
              UNCHANGED <<run, steps, assets, outcome, pc>>
         [] resp \in {"error", "empty"} ->
              /\ FailStep("VIDEO", resp)
              /\ UNCHANGED assets
         [] OTHER ->
              /\ _save_video_asset(VideoModel, VideoResolution)
              /\ outcome' = [outcome EXCEPT !["VIDEO"] = "ok"]
              /\ pc' = [pc EXCEPT !["VIDEO"] = "saved"]
              /\ UNCHANGED <<run, steps>>
    /\ UNCHANGED <<prompts, queue, fin, scheduled, request, cleaned, fragment, page, aside>>

\* _finish_video_step: one transaction completes the step; the run is refreshed.
_finish_video_step ==
    /\ pc["VIDEO"] = "saved"
    /\ StepCompleted("VIDEO")
    /\ pc' = [pc EXCEPT !["VIDEO"] = "completed"]
    /\ UNCHANGED <<run, prompts, assets, queue, outcome, fin, scheduled, request,
                   cleaned, fragment, page, aside>>

----------------------------------------------------------------------------
(* src/sources/views.py: RunStatusFragmentView *)

AssetsGenerated == "Assets are generated, please visit the Assets page."

\* _build_status_message
_build_status_message ==
    IF run.status = "COMPLETED" THEN AssetsGenerated
    ELSE IF run.status = "FAILED" THEN "Generation failed"
    ELSE IF steps["ANALYZE"].status # "COMPLETED" THEN "Starting assets generation..."
    ELSE "Assets generation in progress...."

\* The response of get_object_or_404 when no row matches.
NotFound(user) ==
    [user |-> user, status_code |-> 404, status_message |-> "", poll_active |-> FALSE]

\* Mutant of RunStatusFragmentView_get: the run is looked up by id alone.
RunStatusFragmentView_get_by_id_only(user) ==
    /\ fragment' = IF run.status # "NONE"
                   THEN [user |-> user, status_code |-> 200,
                         status_message |-> _build_status_message,
                         poll_active |-> run.status \notin {"COMPLETED", "FAILED"}]
                   ELSE NotFound(user)
    /\ UNCHANGED <<run, steps, prompts, assets, queue, pc, outcome, fin, scheduled,
                   request, cleaned, page, aside>>

\* get_context_data: the run is looked up by id and owner; not found, the
\* response is 404, else the fragment carries the message and whether it keeps
\* polling.
RunStatusFragmentView_get(user) ==
    /\ fragment' = IF run.status # "NONE" /\ run.owner = user
                   THEN [user |-> user, status_code |-> 200,
                         status_message |-> _build_status_message,
                         poll_active |-> run.status \notin {"COMPLETED", "FAILED"}]
                   ELSE NotFound(user)
    /\ UNCHANGED <<run, steps, prompts, assets, queue, pc, outcome, fin, scheduled,
                   request, cleaned, page, aside>>

----------------------------------------------------------------------------
(* src/assets/views.py: AssetLibraryView *)

\* The end of an asset's title: f"{run.title} - Image {idx}", "... - Audio
\* narration", "... - Video spot", by its first letter.
TitleSuffix(m) ==
    CASE m = "image" -> <<" ", "-", " ", "I">>
      [] m = "audio" -> <<" ", "-", " ", "A">>
      [] m = "video" -> <<" ", "-", " ", "V">>

\* An Asset row joined with its run, as the library's queryset reads it.
AssetRow(m, n) ==
    [run |-> "submitted", owner |-> run.owner, kind |-> m, n |-> n,
     title |-> run.title \o TitleSuffix(m),
     run_title |-> run.title, submitted_url |-> run.submitted_url]

\* The Asset rows of the run.
RunAssetRows ==
    {AssetRow("image", a.index) : a \in assets["image"]}
    \cup {AssetRow("audio", 1) : a \in assets["audio"]}
    \cup {AssetRow("video", 1) : a \in assets["video"]}

\* The Asset rows the runs submitted earlier can hold: each user has one such
\* run, titled "Ba" on the URL https://b.a, with an image and a narration.
EarlierAssetRows ==
    {[run |-> "earlier", owner |-> u, kind |-> m, n |-> 1,
      title |-> <<"B", "a">> \o TitleSuffix(m),
      run_title |-> <<"B", "a">>,
      submitted_url |-> HttpsPrefix \o <<"b", ".", "a">>] :
        u \in Users, m \in {"image", "audio"}}

\* Asset.objects.create by the tasks of a run submitted earlier.
Asset_create(row) ==
    /\ row \notin others
    /\ others' = others \cup {row}
    /\ UNCHANGED <<run, steps, prompts, assets, queue, pc, outcome, fin, scheduled,
                   request, cleaned, fragment, page, library, tk>>

\* The values of the query parameters q and source.
SearchInputs == {<< >>, <<"a", "b">>, <<"b", "a">>}

SourceFilterInputs == {<< >>, <<"a", ".">>}

\* Mutant of AssetLibraryQuery: the queryset is not filtered by owner.
AssetLibraryQuery_any_owner(user, q, source, rows) ==
    LET searched ==
            IF q = << >> THEN rows
            ELSE {r \in rows : \/ icontains(r.title, q)
                              \/ icontains(r.run_title, q)
                              \/ icontains(r.submitted_url, q)}
    IN  IF source = << >> THEN searched
        ELSE {r \in searched : \/ icontains(r.run_title, source)
                               \/ icontains(r.submitted_url, source)}

\* Lines 21-38: the assets whose run the user owns, narrowed by q and by
\* source when given.
AssetLibraryQuery(user, q, source, rows) ==
    LET owned == {r \in rows : r.owner = user}
        searched ==
            IF q = << >> THEN owned
            ELSE {r \in owned : \/ icontains(r.title, q)
                               \/ icontains(r.run_title, q)
                               \/ icontains(r.submitted_url, q)}
    IN  IF source = << >> THEN searched
        ELSE {r \in searched : \/ icontains(r.run_title, source)
                               \/ icontains(r.submitted_url, source)}

\* get_context_data: the rows of the library page.
AssetLibraryView_get(user, q, source) ==
    /\ library' = [user |-> user, q |-> q, source |-> source,
                   rows |-> AssetLibraryQuery(user, q, source,
                                              RunAssetRows \cup others)]
    /\ UNCHANGED <<run, steps, prompts, assets, queue, pc, outcome, fin, scheduled,
                   request, cleaned, fragment, page, others, tk>>

----------------------------------------------------------------------------
(* The tasks of the run *)

AnalyzeTask ==
    \/ \E api_key \in BOOLEAN : generate_prompts_for_run_begin(api_key)
    \/ \E resp \in AnalyzeResponses : generate_prompts_for_run_response(resp)
    \/ \E m \in PromptKind : _queue_generation(m)

ImageTask ==
    \/ generate_images_for_run_begin
    \/ \E api_key \in BOOLEAN : generate_images_for_run_call(api_key)
    \/ \E resp \in ImageResponses(ImageCount) : generate_images_for_run_response(resp)
    \/ generate_images_for_run_finish

AudioTask ==
    \/ generate_audio_for_run_begin
    \/ \E api_key \in BOOLEAN : generate_audio_for_run_call(api_key)
    \/ \E resp \in AudioResponses : generate_audio_for_run_response(resp)
    \/ _finish_audio_step

VideoTask ==
    \/ generate_video_for_run_begin
    \/ \E api_key, client_ok \in BOOLEAN : generate_video_for_run_call(api_key, client_ok)
    \/ \E raised \in BOOLEAN : generate_video_for_run_operation(raised)
    \/ \E resp \in VideoPolls : generate_video_for_run_poll(resp)
    \/ _finish_video_step

Finalize ==
    \/ \E t \in StepKind : _maybe_finalize_run_query(t)
    \/ \E t \in StepKind : _maybe_finalize_run_update(t)

\* The pipeline: one user submits the form, with any modalities and options.
Next ==
    \/ run.status = "NONE" /\ \E data \in FormInputs : form_valid("alice", data)
    \/ run.status = "NONE" /\ \E data \in FormInputs : form_invalid("alice", data)
    \/ AnalyzeTask
    \/ ImageTask
    \/ AudioTask
    \/ VideoTask
    \/ Finalize

Spec == Init /\ [][Next]_vars

\* The submissions of a titled run on a URL with the given modalities.
UrlRunInputs(modalities) ==
    PlainInputs(modalities, {<<"A", "b">>}, {"url"}, {<<"a", ".", "b">>}, {<< >>})

\* The pipeline together with the owner's requests for the run-status fragment.
NextWithStatus ==
    \/ run.status = "NONE"
          /\ \E data \in UrlRunInputs(ModalityInputs) : form_valid("alice", data)
    \/ run.status = "NONE"
          /\ \E data \in UrlRunInputs(ModalityInputs) : form_invalid("alice", data)
    \/ AnalyzeTask
    \/ ImageTask
    \/ AudioTask
    \/ VideoTask
    \/ Finalize
    \/ \E user \in Users : user = run.owner /\ RunStatusFragmentView_get(user)

SpecWithStatus == Init /\ [][NextWithStatus]_vars

\* The ingest page: submissions with any title, input mode and source, and the
\* start of the prompt task they queue.
IngestInputs ==
    PlainInputs({{}, {"audio"}, {"image", "video"}}, TitleInputs, InputModeInputs,
                SourceUrlInputs, SourceTextInputs)

NextIngest ==
    \/ run.status = "NONE" /\ \E data \in IngestInputs : form_valid("alice", data)
    \/ run.status = "NONE" /\ \E data \in IngestInputs : form_invalid("alice", data)
    \/ SourceIngestView_get("alice")
    \/ \E api_key \in BOOLEAN : generate_prompts_for_run_begin(api_key)
    \/ \E resp \in AnalyzeResponses : generate_prompts_for_run_response(resp)

SpecIngest == Init /\ [][NextIngest]_vars

\* A narration run of either user, and both users' requests for its status.
NextAccess ==
    \/ run.status = "NONE"
          /\ \E user \in Users, data \in UrlRunInputs({{"audio"}}) : form_valid(user, data)
    \/ AnalyzeTask
    \/ AudioTask
    \/ Finalize
    \/ \E user \in Users : RunStatusFragmentView_get(user)
    \/ \E user \in Users : SourceIngestView_get(user)

SpecAccess == Init /\ [][NextAccess]_vars

\* A narration run of either user, the assets of the earlier runs, and both
\* users' visits of the asset library.
NextLibrary ==
    \/ run.status = "NONE"
          /\ \E user \in Users, data \in UrlRunInputs({{"audio"}}) : form_valid(user, data)
    \/ AnalyzeTask
    \/ AudioTask
    \/ Finalize
    \/ \E row \in EarlierAssetRows : Asset_create(row)
    \/ \E user \in Users, q \in SearchInputs, source \in SourceFilterInputs :
          AssetLibraryView_get(user, q, source)

SpecLibrary == Init /\ [][NextLibrary]_vars

\* The helpers of src/runs/tokenization.py, called with any text and size.
NextTokens ==
    \/ \E text \in TextInputs, limit \in SizeInputs : truncate_to_limit_call(text, limit)
    \/ \E text \in TextInputs, chunk_size \in SizeInputs :
          iter_token_chunks_call(text, chunk_size)
    \/ iter_token_chunks_next

SpecTokens == Init /\ [][NextTokens]_vars

----------------------------------------------------------------------------
(* Properties *)

\* The provider call of task k is in flight.
InFlight(k) == pc[k] \in {"calling", "polling"}

\* The steps of the modalities the run requests.
RequestedKinds == {StepKindOf(m) : m \in run.requested_modalities}

\* C1: whenever the run is COMPLETED, the ANALYZE step and the step of every
\* requested modality (image, audio and video) exist and are COMPLETED.
C1_CompletedRunHasAllStepsCompleted ==
    run.status = "COMPLETED" =>
        \A k \in {"ANALYZE"} \cup RequestedKinds : steps[k].status = "COMPLETED"

\* C2: in every state in which some step of the run is FAILED, the run is FAILED.
C2_FailedStepMeansFailedRun ==
    (\E k \in StepKind : steps[k].status = "FAILED") => run.status = "FAILED"

\* C3: no IMAGE, AUDIO or VIDEO step exists, no generation task is enqueued or
\* started and no generation provider call is made unless the ANALYZE step has
\* been committed as COMPLETED.
C3_AnalyzeComesFirst ==
    \A k \in GenerationKinds :
        (steps[k].status # "NONE" \/ k \in queue \/ pc[k] # "idle" \/ request[k] # None)
            => steps["ANALYZE"].status = "COMPLETED"

C3_Witness ==
    /\ pc["IMAGE"] = "calling"
    /\ request["IMAGE"] # None
    /\ "AUDIO" \in queue
    /\ steps["ANALYZE"].status = "COMPLETED"

\* The failures of prompt generation that the task handles.
HandledAnalyzeFailures ==
    {"no_api_key", "no_modalities", "error", "empty", "bad_json", "no_prompts"}

\* C4: once prompt generation has failed in a handled way, in that state and
\* in every later one the run and its ANALYZE step are both FAILED with
\* finished_at set; the step is never FAILED without the run (one commit).
C4_HandledAnalyzeFailureFailsRunAndStep ==
    (outcome["ANALYZE"] \in HandledAnalyzeFailures \/ steps["ANALYZE"].status = "FAILED")
        => /\ run.status = "FAILED"
           /\ run.finished_at
           /\ steps["ANALYZE"].status = "FAILED"
           /\ steps["ANALYZE"].finished_at
           /\ outcome["ANALYZE"] \in HandledAnalyzeFailures

C4_Witness ==
    /\ outcome["ANALYZE"] = "no_prompts"
    /\ pc["ANALYZE"] = "done"
    /\ run.status = "FAILED"

\* What counts as a failed provider call: an error raised, or no usable data.
ProviderFailures == {"error", "empty", "bad_json", "no_prompts", "undecodable"}

\* C5 as stated: a task whose provider call failed never completes its step,
\* and has its step FAILED when it ends.
C5_ProviderFailureFailsStep ==
    \A k \in StepKind :
        outcome[k] \in ProviderFailures
            => /\ steps[k].status # "COMPLETED"
               /\ pc[k] = "done" => steps[k].status = "FAILED"

\* C5 as amended: for the analyze, image and video tasks, the step taken when
\* the provider call fails sets the task's step and the run FAILED together,
\* and the step stays FAILED from then on.
C5_ProviderFailureFailsStepExceptAudio ==
    /\ [][\A k \in StepKind \ {"AUDIO"} :
            (outcome'[k] \in ProviderFailures /\ outcome[k] \notin ProviderFailures)
                => steps'[k].status = "FAILED" /\ run'.status = "FAILED"]_vars
    /\ [](\A k \in StepKind \ {"AUDIO"} :
            outcome[k] \in ProviderFailures
                => steps[k].status = "FAILED" /\ pc[k] = "done")

C5_Witness ==
    /\ outcome["VIDEO"] = "empty"
    /\ steps["VIDEO"].status = "FAILED"
    /\ outcome["IMAGE"] = "error"
    /\ steps["IMAGE"].status = "FAILED"

\* The audio task fell back to the placeholder narration.
MockFallbacks == {"no_api_key", "error", "empty"}

\* C6: when speech synthesis is unavailable for a run with a stored audio
\* prompt, exactly one audio asset is stored, flagged mock and in WAV format
\* whatever format was requested, and the AUDIO step ends COMPLETED.
C6_PlaceholderNarration ==
    outcome["AUDIO"] \in MockFallbacks
        => /\ Cardinality(assets["audio"]) = 1
           /\ \A a \in assets["audio"] : a.mock /\ a.format = "wav"
           /\ steps["AUDIO"].status # "FAILED"
           /\ pc["AUDIO"] \in {"completed", "finalizing", "done"}
                => steps["AUDIO"].status = "COMPLETED"

C6_Witness ==
    /\ outcome["AUDIO"] = "error"
    /\ pc["AUDIO"] = "done"
    /\ request["AUDIO"] # None
    /\ \A r \in {request["AUDIO"][i] : i \in DOMAIN request["AUDIO"]} :
            r.response_format = "mp3"

\* C7 as stated: at no time are two generation provider calls of the run in flight.
C7_OneProviderCallAtATime ==
    Cardinality({k \in GenerationKinds : InFlight(k)}) <= 1

\* C7 as amended: only the analyze call is ordered before the others; a
\* generation call is in flight only after the analyze call has returned and
\* stored that modality's prompt.
C7_GenerationCallsFollowAnalyzeCall ==
    \A m \in PromptKind :
        InFlight(StepKindOf(m))
            => /\ pc["ANALYZE"] \notin {"idle", "calling"}
               /\ outcome["ANALYZE"] = "ok"
               /\ m \in prompts

C7_Witness ==
    /\ InFlight("IMAGE")
    /\ InFlight("AUDIO")
    /\ InFlight("VIDEO")
    /\ outcome["ANALYZE"] = "ok"

\* C8: a step that is COMPLETED or FAILED keeps that status in every step of
\* the system, and the task of a FAILED step is neither enqueued nor run again.
C8_NoRetry ==
    [][\A k \in StepKind :
        /\ steps[k].status \in {"COMPLETED", "FAILED"}
              => steps'[k].status = steps[k].status
        /\ steps[k].status = "FAILED"
              => k \notin queue' /\ pc[k] = "done" /\ pc'[k] = "done"]_vars

C8_Witness ==
    /\ steps["IMAGE"].status = "FAILED"
    /\ steps["AUDIO"].status = "COMPLETED"
    /\ \A k \in {"ANALYZE", "IMAGE", "AUDIO"} : pc[k] = "done"

\* C9: whenever the fragment reports that the assets are generated and stops
\* polling, at least one asset is stored for every requested modality.
C9_AssetsGeneratedMeansAssetsExist ==
    (fragment.status_message = AssetsGenerated /\ ~fragment.poll_active)
        => \A m \in run.requested_modalities : assets[m] # {}

\* C10: the voice and format of the form are the voice and response_format
\* sent to the text-to-speech provider.
C10_FormAudioOptionsAreSent ==
    request["AUDIO"] # None
        => /\ cleaned.audio_options # None
           /\ request["AUDIO"][1].voice = cleaned.audio_options[1].voice
           /\ request["AUDIO"][1].response_format = cleaned.audio_options[1].format

\* C11: the Veo model and the resolution of the form are the model and the
\* resolution sent to the video provider.
C11_FormVideoOptionsAreSent ==
    request["VIDEO"] # None
        => /\ cleaned.video_options # None
           /\ request["VIDEO"][1].model = cleaned.video_options[1].model
           /\ request["VIDEO"][1].resolution = cleaned.video_options[1].resolution

\* C12: the image count, quality and size of the form are the n, quality and
\* size sent to the image provider.
C12_FormImageOptionsAreSent ==
    request["IMAGE"] # None
        => /\ cleaned.image_options # None
           /\ request["IMAGE"][1].n = cleaned.image_options[1].count
           /\ request["IMAGE"][1].quality = cleaned.image_options[1].quality
           /\ request["IMAGE"][1].size = cleaned.image_options[1].size

C12_Witness ==
    /\ pc["IMAGE"] = "calling"
    /\ cleaned.image_options # None
    /\ request["IMAGE"] # None
    /\ \A r \in {request["IMAGE"][i] : i \in DOMAIN request["IMAGE"]} :
            r.n = 1 /\ r.quality = "high" /\ r.size = "1024x1024"

\* C13: a run exists only with its ANALYZE step, at least one requested
\* modality, a submitted_url that is non-empty exactly when input_mode is
\* "url", and a non-empty source text when input_mode is "text"; after a
\* submission answered with errors there is no run, no step and no task.
C13_RunsComeFromValidSubmissions ==
    /\ run.status # "NONE"
          => /\ steps["ANALYZE"].status # "NONE"
             /\ run.requested_modalities # {}
             /\ run.params.input_mode \in {"url", "text"}
             /\ (run.submitted_url # << >>) <=> (run.params.input_mode = "url")
             /\ run.params.input_mode = "text" => cleaned.source_text # << >>
    /\ page.errors # {}
          => /\ run = NoRun
             /\ steps = [k \in StepKind |-> NoStep]
             /\ queue = {}
             /\ \A k \in StepKind : pc[k] = "idle"

C13_Witness ==
    /\ run.status = "RUNNING"
    /\ run.params.input_mode = "text"
    /\ cleaned.source_url # << >>
    /\ run.submitted_url = << >>
    /\ pc["ANALYZE"] = "calling"

\* C14: a user who does not own the run is answered 404 by the run-status
\* fragment, the same answer whatever the state of the run and whether or not
\* it exists, and is given no status URL by the ingest page.
C14_StatusOnlyForOwner ==
    /\ fragment.user # run.owner => fragment \in {NoFragment, NotFound(fragment.user)}
    /\ page.user # run.owner => ~page.status_url

C14_Witness ==
    /\ run.owner = "alice"
    /\ run.status = "COMPLETED"
    /\ fragment = NotFound("bob")
    /\ page.user = "bob"

\* C15: every visit of the asset library shows only assets of runs the
\* visitor owns, and shows what it would show if the other users had no
\* assets, whatever the search and source filters.
C15_LibraryShowsOwnAssetsOnly ==
    [][library' # library
          => /\ \A r \in library'.rows : r.owner = library'.user
             /\ library'.rows =
                   AssetLibraryQuery(library'.user, library'.q, library'.source,
                                     {r \in RunAssetRows \cup others :
                                          r.owner = library'.user})]_vars

C15_Witness ==
    /\ library.user = "bob"
    /\ library.q = <<"b", "a">>
    /\ library.rows # {}
    /\ run.owner = "alice"
    /\ assets["audio"] # {}
    /\ \E r \in others : r.owner = "alice" /\ icontains(r.title, library.q)

\* C16: the text truncate_to_limit returns is empty for a limit <= 0 or a
\* blank text, and consumes at most `limit` tokens otherwise.
C16_TruncatedTextFitsTheLimit ==
    tk.op = "truncate_to_limit"
        => /\ (tk.size <= 0 \/ strip(tk.text) = << >>) => tk.result = << >>
           /\ tk.size > 0 => count_tokens(tk.result) <= tk.size

\* The sequences of a sequence, joined.
RECURSIVE Flatten(_)
Flatten(seqs) ==
    IF seqs = << >> THEN << >> ELSE Head(seqs) \o Flatten(Tail(seqs))

\* C17: nothing is yielded for a chunk_size <= 0 or a blank text; else each
\* chunk is the decoding of at most chunk_size consecutive tokens of the
\* stripped text, every chunk but the last of exactly chunk_size, and the
\* slices joined are the tokens of the stripped text.
C17_ChunksAreTokenSlices ==
    tk.op = "iter_token_chunks"
        => LET tokens == encode(strip(tk.text))
           IN  /\ (tk.size <= 0 \/ strip(tk.text) = << >>) => tk.chunks = << >>
               /\ Len(tk.chunks) = Len(tk.slices)
               /\ \A i \in DOMAIN tk.slices :
                     /\ tk.chunks[i] = decode(tk.slices[i])
                     /\ Len(tk.slices[i]) \in 1..tk.size
                     /\ i < Len(tk.slices) => Len(tk.slices[i]) = tk.size
               /\ Flatten(tk.slices) = SubSeq(tokens, 1, Len(Flatten(tk.slices)))
               /\ decode(Flatten(tk.slices)) = Flatten(tk.chunks)
               /\ (tk.done /\ tk.size > 0) => Flatten(tk.slices) = tokens

C17_Witness ==
    /\ tk.op = "iter_token_chunks"
    /\ tk.done
    /\ tk.text # strip(tk.text)
    /\ Len(tk.chunks) = 2
    /\ Len(tk.slices[2]) < tk.size
    /\ \E i \in DOMAIN tk.slices[1] : Len(tk.slices[1][i]) = 2

\* C18 as stated: the provider call runs inside the transaction that sets the
\* step RUNNING, so that no RUNNING step is committed while the call is in
\* flight.
C18_CallInsideStatusTransaction ==
    \A k \in StepKind : InFlight(k) => steps[k].status # "RUNNING"

\* C18 as amended: the RUNNING status is committed, and its lock released,
\* before the provider is called, and the outcome is written by a later
\* transaction; while the call is in flight the step is RUNNING for every
\* reader.
C18_RunningCommittedBeforeCall ==
    \A k \in StepKind :
        InFlight(k) => steps[k].status = "RUNNING" /\ steps[k].started_at

C18_Witness ==
    /\ InFlight("IMAGE")
    /\ steps["IMAGE"].status = "RUNNING"
    /\ pc["AUDIO"] = "finalizing"
    /\ fin["AUDIO"] = "RUNNING"

\* C19: for a run of image and audio, once every task has ended with the
\* ANALYZE, IMAGE and AUDIO steps COMPLETED, the run is COMPLETED.
C19_QuiescentRunIsCompleted ==
    (/\ run.requested_modalities = {"image", "audio"}
     /\ \A k \in {"ANALYZE", "IMAGE", "AUDIO"} :
            pc[k] = "done" /\ steps[k].status = "COMPLETED")
        => run.status = "COMPLETED"

\* No task of the run is enqueued or running.
AllTasksEnded ==
    /\ run.status # "NONE"
    /\ queue = {}
    /\ pc["ANALYZE"] \in {"done", "crashed"}
    /\ \A k \in GenerationKinds : pc[k] \in {"idle", "done"}

\* C20: a run whose tasks have all ended, so that nothing will write to it
\* again, is COMPLETED or FAILED.
C20_EndedRunIsTerminal ==
    AllTasksEnded => run.status \in {"COMPLETED", "FAILED"}

\* C21: terminal run states are absorbing: no step of a task of the run takes
\* a run that is COMPLETED or FAILED to a different status.
C21_TerminalRunStatusIsAbsorbing ==
    [][run.status \in {"COMPLETED", "FAILED"} => run'.status = run.status]_vars

====
